---------------------------- MODULE Spec2Model ----------------------------
(***************************************************************************)
(* A model of three parts of the tract core:                               *)
(*   - ops/array/rm_dims.rs : RmDims (inference op) and RmDim (typed op)   *)
(*   - infer/mod.rs         : InferenceOp::infer                           *)
(*   - model/translator.rs  : Translate::translate_model_with_mappings     *)
(* Axes and slots are 0-based as in the source; TLA+ sequences are 1-based *)
(* so position ix of a shape is shape[ix + 1].                             *)
(***************************************************************************)
EXTENDS Integers, Sequences, FiniteSets

VARIABLES
    rm_op,      \* the operator under test: RmDims{axes} or RmDim{axis}
    rm_fact,    \* the input fact: datum type, shape, streaming axis
    rm_infer,   \* result of the inference rules of RmDims
    rm_typed,   \* result of RmDims::to_typed
    rm_inv,     \* result of RmDim::invariants
    rm_pulsed,  \* result of RmDim::pulsed_output_facts
    inf_op,     \* the InferenceOp: as_stateless, what infer_facts and eval return
    inf_pc,     \* position inside InferenceOp::infer
    inf_infered,\* (infered_inputs, infered_outputs, observed) of infer_facts
    inf_values, \* input_values handed to eval; None while eval was not called
    inf_result, \* what infer returned
    source,     \* the model being translated: nodes, inputs, outputs, labels
    target,     \* the model being built
    mapping,    \* old outlet -> new outlet
    tr_pc,      \* position inside translate_model_with_mappings
    tr_ix,      \* index of the running loop (1-based)
    tr_calls,   \* ids of the source nodes handed to translate_node, in order
    tr_order,   \* source.eval_order(), computed once at line 31
    dc_model,   \* the typed model being decluttered
    dc_pc,      \* position of the declutter loop
    dc_ix,      \* index of the node the running pass looks at (1-based)
    dc_last     \* the last answer of RmDim::declutter, and the model it was given

rmvars == <<rm_op, rm_fact, rm_infer, rm_typed, rm_inv, rm_pulsed>>

infvars == <<inf_op, inf_pc, inf_infered, inf_values, inf_result>>

trvars == <<source, target, mapping, tr_pc, tr_ix, tr_calls, tr_order>>

dcvars == <<dc_model, dc_pc, dc_ix, dc_last>>

vars == <<rmvars, infvars, trvars, dcvars>>

None == [tag |-> "none"]
Err == [tag |-> "err"]
Panic == [tag |-> "panic"]

(***************************************************************************)
(* Bounds                                                                  *)
(***************************************************************************)
MaxRank == 4
MaxAxes == 2
MaxInputs == 2
MaxNodes == 3
MaxOps == 3
\* usize is 64 bits wide; the word is scaled down so that the wrapped value
\* is an integer TLC can hold.
UsizeBits == 16

Dims == {1, 3, 224}
DatumTypes == {"f32", "i64"}

SeqsUpTo(S, n) == UNION {[1..k -> S] : k \in 0..n}
Shapes == UNION {[1..k -> Dims] : k \in 1..MaxRank}

(***************************************************************************)
(* The parts a specification does not exercise stay as constructed         *)
(***************************************************************************)
InfIdle ==
    /\ inf_op = None
    /\ inf_pc = "idle"
    /\ inf_infered = None
    /\ inf_values = None
    /\ inf_result = None

DcIdle ==
    /\ dc_model = None
    /\ dc_pc = "idle"
    /\ dc_ix = 0
    /\ dc_last = None

TrIdle ==
    /\ source = None
    /\ target = None
    /\ mapping = <<>>
    /\ tr_pc = "idle"
    /\ tr_ix = 0
    /\ tr_calls = <<>>
    /\ tr_order = <<>>

RmIdle ==
    /\ rm_op = None
    /\ rm_fact = None
    /\ rm_infer = None
    /\ rm_typed = None
    /\ rm_inv = None
    /\ rm_pulsed = None

(***************************************************************************)
(* Sequence helpers                                                        *)
(***************************************************************************)
Range(s) == {s[i] : i \in DOMAIN s}

\* Vec::remove / SmallVec::remove at a 0-based index that is in range
RemoveAt(s, ix) == [i \in 1..(Len(s) - 1) |-> IF i <= ix THEN s[i] ELSE s[i + 1]]

RECURSIVE Insert(_, _)
Insert(s, x) ==
    IF s = <<>> THEN <<x>>
    ELSE IF x <= Head(s) THEN <<x>> \o s
    ELSE <<Head(s)>> \o Insert(Tail(s), x)

RECURSIVE Sort(_)
\* axes.sort()
Sort(s) == IF s = <<>> THEN <<>> ELSE Insert(Sort(Tail(s)), Head(s))

\* .rev()
Rev(s) == [i \in 1..Len(s) |-> s[Len(s) + 1 - i]]

(***************************************************************************)
(* RmDims                                                                  *)
(***************************************************************************)
RECURSIVE computeShapeFrom(_, _, _)
computeShapeFrom(axes, input, ix) ==
    IF ix >= Len(input) THEN <<>>
    ELSE (IF ix \in Range(axes) THEN <<>> ELSE <<input[ix + 1]>>)
         \o computeShapeFrom(axes, input, ix + 1)

\* RmDims::compute_shape: keep the dimensions whose index is not in axes
compute_shape(axes, input) == computeShapeFrom(axes, input, 0)

\* The solver's outcome for RmDims::rules on a fact whose datum type and shape
\* are concrete: every equality must agree, else unification fails.
rules(axes, fact) ==
    LET rank == Len(fact.shape)
        outRank == rank - Len(axes)
        outShape == compute_shape(axes, fact.shape)
    IN  IF \E i \in DOMAIN axes : axes[i] >= rank \/ fact.shape[axes[i] + 1] # 1
        THEN Err
        ELSE IF Len(outShape) # outRank
        THEN Err
        ELSE [tag |-> "ok", datum_type |-> fact.datum_type,
              rank |-> outRank, shape |-> outShape]

\* ShapeInfo::remove_axis
remove_axis(shape, axis) ==
    IF axis < Len(shape) THEN [tag |-> "ok", shape |-> RemoveAt(shape, axis)]
    ELSE Err

\* RmDim::output_facts
output_facts(axis, fact) ==
    LET r == remove_axis(fact.shape, axis)
    IN  IF r.tag = "err" THEN Err
        ELSE [tag |-> "ok", datum_type |-> fact.datum_type, shape |-> r.shape]

RECURSIVE wireChain(_, _, _)
\* the loop of to_typed: wire one RmDim per axis, each on the previous wire
wireChain(order, fact, nodes) ==
    IF order = <<>> THEN [tag |-> "ok", nodes |-> nodes, fact |-> fact]
    ELSE LET of == output_facts(Head(order), fact)
         IN  IF of.tag = "err" THEN Err
             ELSE wireChain(Tail(order),
                            [datum_type |-> of.datum_type, shape |-> of.shape],
                            Append(nodes, [op |-> "RmDim", axis |-> Head(order)]))

to_typed_ascending(axes, fact) == wireChain(Sort(axes), fact, <<>>)

\* RmDims::to_typed
to_typed(axes, fact) == wireChain(Rev(Sort(axes)), fact, <<>>)

(***************************************************************************)
(* RmDim                                                                   *)
(***************************************************************************)
AxisInfo(in, out) ==
    [inputs |-> <<in>>, outputs |-> <<out>>, period |-> 1, disposable |-> TRUE]

RECURSIVE invariantsLoop(_, _, _, _, _)
invariantsLoop(axis, rank, in, out, axes) ==
    IF in >= rank THEN axes
    ELSE IF axis # out
    THEN invariantsLoop(axis, rank, in + 1, out + 1, Append(axes, AxisInfo(in, out)))
    ELSE invariantsLoop(axis, rank, in + 1, out, axes)

\* RmDim::invariants
invariants(axis, rank) == invariantsLoop(axis, rank, 0, 0, <<>>)

UsizeModulus == 2 ^ UsizeBits

\* fact.axis -= (self.axis <= fact.axis) as usize
\* A subtraction below zero panics in a build with overflow checks and wraps
\* in a build without.
pulsed_output_facts(axis, fact) ==
    LET shape == RemoveAt(fact.shape, axis)
        dec == IF axis <= fact.axis THEN 1 ELSE 0
    IN  IF axis >= Len(fact.shape) THEN {Panic}
        ELSE IF fact.axis - dec < 0
        THEN {Panic,
              [tag |-> "ok", shape |-> shape,
               axis |-> (fact.axis - dec) % UsizeModulus, underflow |-> TRUE]}
        ELSE {[tag |-> "ok", shape |-> shape, axis |-> fact.axis - dec,
               underflow |-> FALSE]}

(***************************************************************************)
(* Specification of the RmDims / RmDim operators                           *)
(***************************************************************************)
RmInit ==
    /\ InfIdle
    /\ TrIdle
    /\ DcIdle
    /\ \E shape \in Shapes, dt \in DatumTypes :
         \/ \E axes \in SeqsUpTo(0..(MaxRank - 1), MaxAxes) :
              /\ rm_op = [kind |-> "RmDims", axes |-> axes]
              /\ rm_fact = [datum_type |-> dt, shape |-> shape, axis |-> 0]
         \/ \E a \in 0..(Len(shape) - 1), s \in 0..(Len(shape) - 1) :
              /\ dt = "f32"
              /\ rm_op = [kind |-> "RmDim", axis |-> a]
              /\ rm_fact = [datum_type |-> dt, shape |-> shape, axis |-> s]
    /\ rm_infer = None
    /\ rm_typed = None
    /\ rm_inv = None
    /\ rm_pulsed = None

RmDimsInfer ==
    /\ rm_op.kind = "RmDims"
    /\ rm_infer = None
    /\ rm_infer' = rules(rm_op.axes, rm_fact)
    /\ UNCHANGED <<rm_op, rm_fact, rm_typed, rm_inv, rm_pulsed, infvars, trvars, dcvars>>

RmDimsToTyped ==
    /\ rm_op.kind = "RmDims"
    /\ rm_typed = None
    /\ rm_typed' = to_typed(rm_op.axes, rm_fact)
    /\ UNCHANGED <<rm_op, rm_fact, rm_infer, rm_inv, rm_pulsed, infvars, trvars, dcvars>>

RmDimInvariants ==
    /\ rm_op.kind = "RmDim"
    /\ rm_inv = None
    /\ rm_inv' = [tag |-> "ok", axes |-> invariants(rm_op.axis, Len(rm_fact.shape))]
    /\ UNCHANGED <<rm_op, rm_fact, rm_infer, rm_typed, rm_pulsed, infvars, trvars, dcvars>>

RmDimPulsedOutputFacts ==
    /\ rm_op.kind = "RmDim"
    /\ rm_pulsed = None
    /\ \E o \in pulsed_output_facts(rm_op.axis, rm_fact) : rm_pulsed' = o
    /\ UNCHANGED <<rm_op, rm_fact, rm_infer, rm_typed, rm_inv, infvars, trvars, dcvars>>

RmNext ==
    \/ RmDimsInfer
    \/ RmDimsToTyped
    \/ RmDimInvariants
    \/ RmDimPulsedOutputFacts

SpecRmDims == RmInit /\ [][RmNext]_vars

(***************************************************************************)
(* InferenceOp::infer                                                      *)
(***************************************************************************)
GenericAny == [any |-> TRUE]
Only(x) == [any |-> FALSE, v |-> x]

Tensors == [datum_type : {"f32"}, data : {1, 2}]

\* InferenceFact: a datum type and a value, each unknown or concrete (a
\* concrete value is a tensor, which carries its own datum type)
InferenceFacts ==
    [datum_type : {GenericAny, Only("f32")},
     value : {GenericAny} \cup {Only(t) : t \in Tensors}]

\* i.value.is_concrete()
is_concrete(g) == ~g.any

\* i.value.concretize().unwrap().clone().into()
concretize(fact) == fact.value.v

\* impl From<Tensor> for InferenceFact: a fully determined fact
FactFromTensor(t) == [datum_type |-> Only(t.datum_type), value |-> Only(t)]

StreamTensor == [tag |-> "err", kind |-> "StreamTensor"]
OtherError == [tag |-> "err", kind |-> "Other"]

\* e.chain_err(|| context)
chain_err(e, context) == [tag |-> "err", kind |-> e.kind, context |-> context]

InferFactsOutcomes ==
    {OtherError} \cup
    [tag : {"ok"},
     inputs : UNION {[1..k -> InferenceFacts] : k \in 1..MaxInputs},
     outputs : [1..1 -> InferenceFacts],
     observed : {<<>>} \cup [1..1 -> {[datum_type |-> GenericAny, value |-> GenericAny],
                                      FactFromTensor([datum_type |-> "f32", data |-> 1])}]]

EvalOutcomes ==
    {StreamTensor, OtherError} \cup [tag : {"ok"}, values : [1..1 -> Tensors]]

InfInit ==
    /\ RmIdle
    /\ TrIdle
    /\ DcIdle
    /\ inf_op \in [as_stateless : BOOLEAN, infer_facts : InferFactsOutcomes,
                   eval : EvalOutcomes]
    /\ inf_pc = "infer_facts"
    /\ inf_infered = None
    /\ inf_values = None
    /\ inf_result = None

\* lines 45-46: self.infer_facts(inputs, outputs, observed).chain_err(..)?
InferFacts ==
    /\ inf_pc = "infer_facts"
    /\ IF inf_op.infer_facts.tag = "err"
       THEN /\ inf_result' = chain_err(inf_op.infer_facts, "Infering facts")
            /\ inf_pc' = "done"
            /\ UNCHANGED inf_infered
       ELSE /\ inf_infered' = inf_op.infer_facts
            /\ inf_pc' = "as_stateless"
            /\ UNCHANGED inf_result
    /\ UNCHANGED <<inf_op, inf_values, rmvars, trvars, dcvars>>

\* lines 48-53: the op is stateless and every infered input has a value
AsStateless ==
    /\ inf_pc = "as_stateless"
    /\ IF inf_op.as_stateless
          /\ \A i \in DOMAIN inf_infered.inputs : is_concrete(inf_infered.inputs[i].value)
       THEN /\ inf_values' = [tag |-> "ok",
                              values |-> [i \in DOMAIN inf_infered.inputs |->
                                            concretize(inf_infered.inputs[i])]]
            /\ inf_pc' = "eval"
       ELSE /\ inf_pc' = "return"
            /\ UNCHANGED inf_values
    /\ UNCHANGED <<inf_op, inf_infered, inf_result, rmvars, trvars, dcvars>>

EvalNoSwallow ==
    /\ inf_pc = "eval"
    /\ IF inf_op.eval.tag = "ok"
       THEN /\ inf_result' = [tag |-> "ok",
                              inputs |-> inf_infered.inputs,
                              outputs |-> [i \in DOMAIN inf_op.eval.values |->
                                              FactFromTensor(inf_op.eval.values[i])],
                              observed |-> inf_infered.observed]
            /\ inf_pc' = "done"
       ELSE /\ inf_result' = chain_err(inf_op.eval, "Eager eval")
            /\ inf_pc' = "done"
    /\ UNCHANGED <<inf_op, inf_infered, inf_values, rmvars, trvars, dcvars>>

EvalKeepRuleOutputs ==
    /\ inf_pc = "eval"
    /\ IF inf_op.eval.tag = "ok"
       THEN /\ inf_result' = [tag |-> "ok",
                              inputs |-> inf_infered.inputs,
                              outputs |-> inf_infered.outputs,
                              observed |-> inf_infered.observed]
            /\ inf_pc' = "done"
       ELSE IF inf_op.eval = StreamTensor
       THEN /\ inf_pc' = "return"
            /\ UNCHANGED inf_result
       ELSE /\ inf_result' = chain_err(inf_op.eval, "Eager eval")
            /\ inf_pc' = "done"
    /\ UNCHANGED <<inf_op, inf_infered, inf_values, rmvars, trvars, dcvars>>

\* lines 54-64: match stateless.eval(input_values)
Eval ==
    /\ inf_pc = "eval"
    /\ IF inf_op.eval.tag = "ok"
       THEN /\ inf_result' = [tag |-> "ok",
                              inputs |-> inf_infered.inputs,
                              outputs |-> [i \in DOMAIN inf_op.eval.values |->
                                              FactFromTensor(inf_op.eval.values[i])],
                              observed |-> inf_infered.observed]
            /\ inf_pc' = "done"
       ELSE IF inf_op.eval = StreamTensor
       THEN /\ inf_pc' = "return"
            /\ UNCHANGED inf_result
       ELSE /\ inf_result' = chain_err(inf_op.eval, "Eager eval")
            /\ inf_pc' = "done"
    /\ UNCHANGED <<inf_op, inf_infered, inf_values, rmvars, trvars, dcvars>>

\* line 68: return Ok((infered_inputs, infered_outputs, observed))
Return ==
    /\ inf_pc = "return"
    /\ inf_result' = [tag |-> "ok",
                      inputs |-> inf_infered.inputs,
                      outputs |-> inf_infered.outputs,
                      observed |-> inf_infered.observed]
    /\ inf_pc' = "done"
    /\ UNCHANGED <<inf_op, inf_infered, inf_values, rmvars, trvars, dcvars>>

InfNext ==
    \/ InferFacts
    \/ AsStateless
    \/ Eval
    \/ Return

SpecInfer == InfInit /\ [][InfNext]_vars

(***************************************************************************)
(* Translate::translate_model_with_mappings with IntoTranslator            *)
(* Node ids are 1..n here (0..n-1 in the source); slots are 0-based.       *)
(***************************************************************************)
OutletId(node, slot) == [node |-> node, slot |-> slot]

\* HashMap::insert
MapInsert(map, k, v) == [x \in DOMAIN map \cup {k} |-> IF x = k THEN v ELSE map[x]]

\* HashMap::contains_key
contains_key(map, k) == k \in DOMAIN map

OutputCounts == {1, 2}

OutletsOf(nodes, ids) ==
    {o \in [node : ids, slot : 0..1] : o.slot < nodes[o.node].nout}

RECURSIVE TopoGraphs(_)
\* node sequences of length k in which every inlet is fed by an outlet of an
\* earlier node: sources (no input, one outlet), unary nodes with one or two
\* outlets, binary nodes with one outlet
TopoGraphs(k) ==
    IF k = 0 THEN {<<>>}
    ELSE UNION {{Append(g, nd) :
                    nd \in {[inputs |-> <<>>, nout |-> 1]} \cup
                           [inputs : [1..1 -> OutletsOf(g, DOMAIN g)],
                            nout : OutputCounts] \cup
                           [inputs : [1..2 -> OutletsOf(g, DOMAIN g)],
                            nout : {1}]} :
                g \in TopoGraphs(k - 1)}

\* ids in the order the nodes were added, or in the opposite order
Renamings(n) == {[i \in 1..n |-> i], [i \in 1..n |-> n + 1 - i]}

\* the same graph with node i renamed perm[i]
Relabel(g, perm) ==
    LET inv == [j \in 1..Len(g) |-> CHOOSE i \in 1..Len(g) : perm[i] = j]
    IN  [j \in 1..Len(g) |->
            [inputs |-> [x \in DOMAIN g[inv[j]].inputs |->
                            OutletId(perm[g[inv[j]].inputs[x].node],
                                     g[inv[j]].inputs[x].slot)],
             nout |-> g[inv[j]].nout]]

SourceNodes(nodes) == {i \in DOMAIN nodes : nodes[i].inputs = <<>>}

\* a set of integers as a sequence in ascending order
RECURSIVE Ascending(_)
Ascending(S) ==
    IF S = {} THEN <<>>
    ELSE LET least == CHOOSE x \in S : \A y \in S : x <= y
         IN  <<least>> \o Ascending(S \ {least})

InputNodes(nodes, n) == {nodes[n].inputs[x].node : x \in DOMAIN nodes[n].inputs}

RECURSIVE Ancestors(_, _)
\* the nodes the nodes of S depend on, S included
Ancestors(nodes, S) ==
    LET more == S \cup UNION {InputNodes(nodes, n) : n \in S}
    IN  IF more = S THEN S ELSE Ancestors(nodes, more)

RECURSIVE evalOrderFrom(_, _, _)
evalOrderFrom(nodes, needed, done) ==
    LET ready == {n \in needed \ Range(done) : InputNodes(nodes, n) \subseteq Range(done)}
    IN  IF ready = {} THEN done
        ELSE evalOrderFrom(nodes, needed,
                           Append(done, CHOOSE n \in ready : \A k \in ready : n <= k))

\* source.eval_order(): the nodes the declared outputs need, every node after
\* the nodes feeding it, the lowest id first among those that are ready
eval_order(model) ==
    evalOrderFrom(model.nodes,
                  Ancestors(model.nodes, {model.outputs[i].node : i \in DOMAIN model.outputs}),
                  <<>>)

\* ModelImpl::default()
EmptyModel == [nodes |-> <<>>, inputs |-> <<>>, outputs |-> <<>>, labels |-> <<>>]

translate_node_reversed_inlets(node_id, tgt, map) ==
    LET node == source.nodes[node_id]
        new_id == Len(tgt.nodes) + 1
    IN  IF \E x \in DOMAIN node.inputs : ~contains_key(map, node.inputs[x])
        THEN Panic
        ELSE [tag |-> "ok",
              target |-> [tgt EXCEPT !.nodes =
                            Append(@, [name |-> node_id,
                                       inputs |-> [x \in DOMAIN node.inputs |->
                                                      map[node.inputs[Len(node.inputs) + 1 - x]]],
                                       nout |-> node.nout])],
              outlets |-> [ix \in 1..node.nout |-> OutletId(new_id, ix - 1)]]

\* IntoTranslator::translate_node: add one node of the same name and outlet
\* count, connect its inlets in slot order to the images of the source
\* inlets, return its outlets.  mapping[o] panics on a missing key.
translate_node(node_id, tgt, map) ==
    LET node == source.nodes[node_id]
        new_id == Len(tgt.nodes) + 1
    IN  IF \E x \in DOMAIN node.inputs : ~contains_key(map, node.inputs[x])
        THEN Panic
        ELSE [tag |-> "ok",
              target |-> [tgt EXCEPT !.nodes =
                            Append(@, [name |-> node_id,
                                       inputs |-> [x \in DOMAIN node.inputs |->
                                                      map[node.inputs[x]]],
                                       nout |-> node.nout])],
              outlets |-> [ix \in 1..node.nout |-> OutletId(new_id, ix - 1)]]

RECURSIVE insertOutlets(_, _, _, _)
\* lines 37-42, the mapping: mapping.insert(OutletId::new(node.id, ix), outlet)
insertOutlets(map, node_id, outlets, ix) ==
    IF ix > Len(outlets) THEN map
    ELSE insertOutlets(MapInsert(map, OutletId(node_id, ix - 1), outlets[ix]),
                       node_id, outlets, ix + 1)

RECURSIVE insertLabels(_, _, _, _)
\* lines 39-41: carry the label of each source outlet over to its image
insertLabels(labels, node_id, outlets, ix) ==
    IF ix > Len(outlets) THEN labels
    ELSE insertLabels(
            IF contains_key(source.labels, OutletId(node_id, ix - 1))
            THEN MapInsert(labels, outlets[ix], source.labels[OutletId(node_id, ix - 1)])
            ELSE labels,
            node_id, outlets, ix + 1)

TrGraphs ==
    UNION {{Relabel(g, perm) : g \in TopoGraphs(n), perm \in Renamings(n)} : n \in 1..MaxNodes}

TrInit ==
    /\ RmIdle
    /\ InfIdle
    /\ DcIdle
    /\ \E nodes \in TrGraphs :
         LET srcs == Ascending(SourceNodes(nodes))
             all == OutletsOf(nodes, DOMAIN nodes)
         IN  \E ins \in {srcs, Rev(srcs)},
                outs \in {<<o>> : o \in all} \cup
                         {<<p[1], p[2]>> :
                            p \in {q \in all \X all : q[2].node < q[1].node}} :
               source = [nodes |-> nodes,
                         inputs |-> [i \in DOMAIN ins |-> OutletId(ins[i], 0)],
                         outputs |-> outs,
                         labels |-> MapInsert(<<>>, outs[1], "out")]
    /\ target = EmptyModel
    /\ mapping = <<>>
    /\ tr_pc = "start"
    /\ tr_ix = 0
    /\ tr_calls = <<>>
    /\ tr_order = <<>>

\* lines 29-31: an empty target, an empty mapping, the evaluation order
StartTranslation ==
    /\ tr_pc = "start"
    /\ target' = EmptyModel
    /\ mapping' = <<>>
    /\ tr_order' = eval_order(source)
    /\ tr_pc' = "walk"
    /\ tr_ix' = 1
    /\ UNCHANGED <<source, tr_calls, rmvars, infvars, dcvars>>

\* lines 31-43: one turn of the loop over source.eval_order()
TranslateNode ==
    /\ tr_pc = "walk"
    /\ tr_ix <= Len(tr_order)
    /\ LET old_id == tr_order[tr_ix]
           r == translate_node(old_id, target, mapping)
       IN  /\ tr_calls' = Append(tr_calls, old_id)
           /\ IF r.tag = "panic"
              THEN /\ tr_pc' = "panic"
                   /\ UNCHANGED <<target, mapping, tr_ix>>
              ELSE /\ mapping' = insertOutlets(mapping, old_id, r.outlets, 1)
                   /\ target' = [r.target EXCEPT !.labels =
                                    insertLabels(@, old_id, r.outlets, 1)]
                   /\ tr_ix' = tr_ix + 1
                   /\ UNCHANGED tr_pc
    /\ UNCHANGED <<source, tr_order, rmvars, infvars, dcvars>>

\* line 43: the loop over the evaluation order is over
WalkDone ==
    /\ tr_pc = "walk"
    /\ tr_ix > Len(tr_order)
    /\ tr_pc' = "inputs"
    /\ tr_ix' = 1
    /\ UNCHANGED <<source, target, mapping, tr_calls, tr_order, rmvars, infvars, dcvars>>

\* lines 45-54: one turn of the loop over source.input_outlets()
TranslateUselessInput ==
    /\ tr_pc = "inputs"
    /\ tr_ix <= Len(source.inputs)
    /\ LET i == source.inputs[tr_ix]
           r == translate_node(i.node, target, mapping)
       IN  IF contains_key(mapping, i)
           THEN /\ tr_ix' = tr_ix + 1
                /\ UNCHANGED <<target, mapping, tr_pc, tr_calls>>
           ELSE /\ tr_calls' = Append(tr_calls, i.node)
                /\ IF r.tag = "panic"
                   THEN /\ tr_pc' = "panic"
                        /\ UNCHANGED <<target, mapping, tr_ix>>
                   ELSE /\ mapping' = MapInsert(mapping, i, r.outlets[1])
                        /\ target' = r.target
                        /\ tr_ix' = tr_ix + 1
                        /\ UNCHANGED tr_pc
    /\ UNCHANGED <<source, tr_order, rmvars, infvars, dcvars>>

\* the declared inputs left in the order in which the target received them
MaintainInterfaceInTargetOrder ==
    /\ tr_pc = "inputs"
    /\ tr_ix > Len(source.inputs)
    /\ IF (\E k \in DOMAIN source.inputs : ~contains_key(mapping, source.inputs[k]))
          \/ (\E k \in DOMAIN source.outputs : ~contains_key(mapping, source.outputs[k]))
       THEN /\ tr_pc' = "panic"
            /\ UNCHANGED target
       ELSE /\ target' = [target EXCEPT
                            !.inputs =
                               LET ids == Ascending({mapping[source.inputs[k]].node :
                                                       k \in DOMAIN source.inputs})
                               IN  [k \in DOMAIN ids |-> OutletId(ids[k], 0)],
                            !.outputs = [k \in DOMAIN source.outputs |->
                                            mapping[source.outputs[k]]]]
            /\ tr_pc' = "done"
    /\ UNCHANGED <<source, mapping, tr_ix, tr_calls, tr_order, rmvars, infvars, dcvars>>

\* lines 56-58: rebuild the interface in the source's order and return
MaintainInterface ==
    /\ tr_pc = "inputs"
    /\ tr_ix > Len(source.inputs)
    /\ IF (\E k \in DOMAIN source.inputs : ~contains_key(mapping, source.inputs[k]))
          \/ (\E k \in DOMAIN source.outputs : ~contains_key(mapping, source.outputs[k]))
       THEN /\ tr_pc' = "panic"
            /\ UNCHANGED target
       ELSE /\ target' = [target EXCEPT
                            !.inputs = [k \in DOMAIN source.inputs |->
                                           mapping[source.inputs[k]]],
                            !.outputs = [k \in DOMAIN source.outputs |->
                                            mapping[source.outputs[k]]]]
            /\ tr_pc' = "done"
    /\ UNCHANGED <<source, mapping, tr_ix, tr_calls, tr_order, rmvars, infvars, dcvars>>

TrNext ==
    \/ StartTranslation
    \/ TranslateNode
    \/ WalkDone
    \/ TranslateUselessInput
    \/ MaintainInterface

SpecTranslate == TrInit /\ [][TrNext]_vars

(***************************************************************************)
(* Typed models, axis tracking, patches and RmDim::declutter               *)
(* Every operator here has one outlet; an outlet is OutletId(node, 0).     *)
(***************************************************************************)
F32 == "f32"

TypedFact(shape) == [datum_type |-> F32, shape |-> shape]

\* the operators a typed model is built from
SourceOp == [kind |-> "Source"]
AddDimOp(axis) == [kind |-> "AddDim", axis |-> axis]
RmDimOp(axis) == [kind |-> "RmDim", axis |-> axis]
\* an element-wise operator: every axis passes through and may be dropped
UnaryOp == [kind |-> "Unary"]
\* an operator that passes every axis through but holds on to each of them
FixedOp == [kind |-> "Fixed"]

InsertAt(s, ix, x) ==
    [i \in 1..(Len(s) + 1) |-> IF i <= ix THEN s[i] ELSE IF i = ix + 1 THEN x ELSE s[i - 1]]

\* AddDim::output_facts
add_dim_output_facts(axis, fact) ==
    IF axis <= Len(fact.shape)
    THEN [tag |-> "ok", datum_type |-> fact.datum_type, shape |-> InsertAt(fact.shape, axis, 1)]
    ELSE Err

\* op.output_facts(&[input])
op_output_facts(op, fact) ==
    CASE op.kind = "RmDim" -> output_facts(op.axis, fact)
      [] op.kind = "AddDim" -> add_dim_output_facts(op.axis, fact)
      [] OTHER -> [tag |-> "ok", datum_type |-> fact.datum_type, shape |-> fact.shape]

\* model.outlet_fact(outlet)
outlet_fact(model, outlet) == model.nodes[outlet.node].fact

\* AddDim::invariants: input axis i is output axis i below the new axis and
\* i + 1 from it on
add_dim_invariants(axis, rank) ==
    [i \in 1..rank |-> AxisInfo(i - 1, IF i - 1 < axis THEN i - 1 ELSE i)]

\* node.op.invariants(model, node)
op_invariants(model, n) ==
    LET node == model.nodes[n]
        rank == Len(outlet_fact(model, node.inputs[1]).shape)
    IN  CASE node.op.kind = "RmDim" -> invariants(node.op.axis, rank)
          [] node.op.kind = "AddDim" -> add_dim_invariants(node.op.axis, rank)
          [] node.op.kind = "Unary" -> [i \in 1..rank |-> AxisInfo(i - 1, i - 1)]
          [] node.op.kind = "Fixed" ->
                [i \in 1..rank |-> [AxisInfo(i - 1, i - 1) EXCEPT !.disposable = FALSE]]
          [] OTHER -> <<>>

\* Invariants::track_input_axis(0, axis): the first AxisInfo on that input
\* axis, as a set with at most one element
track_input_axis(invs, axis) ==
    LET hits == {k \in DOMAIN invs : invs[k].inputs = <<axis>>}
    IN  IF hits = {} THEN {} ELSE {invs[CHOOSE k \in hits : \A j \in hits : k <= j]}

\* Invariants::track_output_axis(0, axis)
track_output_axis(invs, axis) ==
    LET hits == {k \in DOMAIN invs : invs[k].outputs = <<axis>>}
    IN  IF hits = {} THEN {} ELSE {invs[CHOOSE k \in hits : \A j \in hits : k <= j]}

\* the nodes fed by an outlet
successors(model, outlet) ==
    {n \in DOMAIN model.nodes : outlet \in Range(model.nodes[n].inputs)}

\* the outlets one step away from `wire` that carry the same axis, each with
\* the index the axis has there
trackStep(model, outlets, wire) ==
    LET axis == outlets[wire]
        emitter == model.nodes[wire.node]
        up == {<<emitter.inputs[1], info.inputs[1]>> :
                 info \in track_output_axis(op_invariants(model, wire.node), axis)}
        down == UNION {{<<OutletId(succ, 0), info.outputs[1]>> :
                          info \in track_input_axis(op_invariants(model, succ), axis)} :
                       succ \in successors(model, wire)}
    IN  {p \in up \cup down : p[1] \notin DOMAIN outlets}

RECURSIVE trackFrom(_, _, _)
trackFrom(model, outlets, todo) ==
    IF todo = {} THEN outlets
    ELSE LET wire == CHOOSE w \in todo : \A v \in todo : w.node <= v.node
             new == trackStep(model, outlets, wire)
             first == {p \in new : \A q \in new : q[1] = p[1] => q = p}
         IN  trackFrom(model,
                       [o \in DOMAIN outlets \cup {p[1] : p \in first} |->
                           IF o \in DOMAIN outlets THEN outlets[o]
                           ELSE (CHOOSE p \in first : p[1] = o)[2]],
                       (todo \ {wire}) \cup {p[1] : p \in first})

\* AxisTracking::for_outlet_and_axis: the outlets carrying the axis, the
\* outlets whose emitter introduces it, the inlets whose node removes it
for_outlet_and_axis(model, outlet, axis) ==
    LET outlets == trackFrom(model, MapInsert(<<>>, outlet, axis), {outlet})
    IN  [outlets |-> outlets,
         creators |-> {w \in DOMAIN outlets :
                         track_output_axis(op_invariants(model, w.node), outlets[w]) = {}},
         destructors |-> {OutletId(succ, 0) :
                            succ \in {n \in DOMAIN model.nodes :
                                        /\ model.nodes[n].inputs # <<>>
                                        /\ model.nodes[n].inputs[1] \in DOMAIN outlets
                                        /\ track_input_axis(op_invariants(model, n),
                                              outlets[model.nodes[n].inputs[1]]) = {}}},
         disposable |-> \A w \in DOMAIN outlets :
                          /\ \A info \in track_output_axis(op_invariants(model, w.node),
                                                           outlets[w]) : info.disposable
                          /\ \A succ \in successors(model, w) :
                               \A info \in track_input_axis(op_invariants(model, succ),
                                                            outlets[w]) : info.disposable]

(***************************************************************************)
(* ModelPatch                                                              *)
(***************************************************************************)
\* TypedModelPatch::default()
EmptyPatch == [nodes |-> <<>>, incoming |-> <<>>, shunts |-> <<>>]

\* patch.tap_model(model, outlet): a stand-in node for an outlet of the model
tap_model(patch, model, outlet) ==
    [patch EXCEPT
       !.nodes = Append(@, [op |-> [kind |-> "Tap"], inputs |-> <<>>,
                            fact |-> outlet_fact(model, outlet)]),
       !.incoming = MapInsert(@, OutletId(Len(patch.nodes) + 1, 0), outlet)]

\* patch.wire_node(name, op, inputs): the output fact comes from the
\* operator's output_facts on the facts of the inputs
wire_node(patch, op, inputs) ==
    LET of == op_output_facts(op, patch.nodes[inputs[1].node].fact)
    IN  IF of.tag = "err" THEN Err
        ELSE [tag |-> "ok",
              patch |-> [patch EXCEPT
                           !.nodes = Append(@, [op |-> op, inputs |-> inputs,
                                                fact |-> [datum_type |-> of.datum_type,
                                                          shape |-> of.shape]])],
              outlet |-> OutletId(Len(patch.nodes) + 1, 0)]

\* patch.shunt_outside(outlet, by)
shunt_outside(patch, outlet, by) == [patch EXCEPT !.shunts = MapInsert(@, outlet, by)]

(***************************************************************************)
(* RmDim::dispose_dummy_axis and RmDim::declutter                          *)
(***************************************************************************)
\* RmDim::dispose_dummy_axis (line 146), AddDim::dispose_dummy_axis, and the
\* default of TypedOp, which answers None
dispose_dummy_axis(op, axis) ==
    CASE op.kind = "RmDim" ->
            [tag |-> "some", op |-> RmDimOp(op.axis - (IF op.axis > axis THEN 1 ELSE 0))]
      [] op.kind = "AddDim" ->
            [tag |-> "some", op |-> AddDimOp(op.axis - (IF op.axis > axis THEN 1 ELSE 0))]
      [] OTHER -> None

\* lines 160-172: some creator is not an AddDim of the tracked axis, or some
\* destructor is not a RmDim of the tracked axis
entangled(model, tracking) ==
    \/ \E c \in tracking.creators :
          ~(/\ model.nodes[c.node].op.kind = "AddDim"
            /\ model.nodes[c.node].op.axis = tracking.outlets[c])
    \/ ~(\A d \in tracking.destructors :
            /\ model.nodes[d.node].op.kind = "RmDim"
            /\ model.nodes[d.node].op.axis = tracking.outlets[model.nodes[d.node].inputs[1]])

RECURSIVE tapCreators(_, _, _)
\* lines 177-190: tap the input of every creator and map the creator to it
tapCreators(model, todo, st) ==
    IF todo = {} THEN st
    ELSE LET c == CHOOSE w \in todo : \A v \in todo : w.node <= v.node
             patch == tap_model(st.patch, model, model.nodes[c.node].inputs[1])
         IN  tapCreators(model, todo \ {c},
                         [patch |-> patch,
                          mapping |-> MapInsert(st.mapping, OutletId(c.node, 0),
                                                OutletId(Len(patch.nodes), 0))])

\* lines 194-198: tap every input the mapping does not hold yet
tapInputs(model, node, st) ==
    IF node.inputs # <<>> /\ ~contains_key(st.mapping, node.inputs[1])
    THEN LET patch == tap_model(st.patch, model, node.inputs[1])
         IN  [patch |-> patch,
              mapping |-> MapInsert(st.mapping, node.inputs[1],
                                    OutletId(Len(patch.nodes), 0))]
    ELSE st

RECURSIVE rewire(_, _, _, _, _)
\* lines 192-215: walk the evaluation order; a node whose first input carries
\* the tracked axis is wired again in the patch, with the operator that
\* dispose_dummy_axis gives, or a clone when it gives none
rewire(model, tracking, order, ix, st) ==
    IF ix > Len(order) THEN [tag |-> "ok", patch |-> st.patch, mapping |-> st.mapping]
    ELSE LET n == order[ix]
             node == model.nodes[n]
             tapped == tapInputs(model, node, st)
         IN  IF node.inputs = <<>> \/ ~contains_key(tracking.outlets, node.inputs[1])
             THEN rewire(model, tracking, order, ix + 1, tapped)
             ELSE LET axis == tracking.outlets[node.inputs[1]]
                      disposed == dispose_dummy_axis(node.op, axis)
                      op == IF disposed = None THEN node.op ELSE disposed.op
                      inputs == [x \in DOMAIN node.inputs |-> tapped.mapping[node.inputs[x]]]
                      wired == wire_node(tapped.patch, op, inputs)
                  IN  IF wired.tag = "err" THEN Err
                      ELSE rewire(model, tracking, order, ix + 1,
                                  [patch |-> wired.patch,
                                   mapping |-> MapInsert(tapped.mapping, OutletId(n, 0),
                                                         wired.outlet)])

RECURSIVE shuntDestructors(_, _, _, _, _)
\* lines 216-222: every destructor of the evaluation order is replaced by
\* what its input was mapped to
shuntDestructors(model, order, todo, map, patch) ==
    IF todo = {} THEN patch
    ELSE LET des == CHOOSE d \in todo : \A e \in todo : d.node <= e.node
         IN  shuntDestructors(model, order, todo \ {des}, map,
                IF des.node \in Range(order)
                THEN shunt_outside(patch, OutletId(des.node, 0),
                                   map[model.nodes[des.node].inputs[1]])
                ELSE patch)

\* RmDim::declutter: None, Some(patch), an error, or a failed assertion
declutter(model, n) ==
    LET node == model.nodes[n]
        tracking == for_outlet_and_axis(model, node.inputs[1], node.op.axis)
        order == eval_order(model)
        st == tapCreators(model, tracking.creators,
                          [patch |-> EmptyPatch, mapping |-> <<>>])
        wired == rewire(model, tracking, order, 1, st)
    IN  IF OutletId(n, 0) \notin tracking.destructors THEN Panic
        ELSE IF entangled(model, tracking) THEN None
        ELSE IF wired.tag = "err" THEN Err
        ELSE [tag |-> "some",
              patch |-> shuntDestructors(model, order, tracking.destructors,
                                         wired.mapping, wired.patch)]

RECURSIVE spliceNodes(_, _, _, _)
\* the nodes of the patch enter the model; a tap stands for the outlet it taps
spliceNodes(model, patch, k, res) ==
    IF k > Len(patch.nodes) THEN [model |-> model, res |-> res]
    ELSE IF contains_key(patch.incoming, OutletId(k, 0))
    THEN spliceNodes(model, patch, k + 1, Append(res, patch.incoming[OutletId(k, 0)]))
    ELSE LET pn == patch.nodes[k]
             added == [model EXCEPT !.nodes =
                         Append(@, [op |-> pn.op,
                                    inputs |-> [x \in DOMAIN pn.inputs |->
                                                   res[pn.inputs[x].node]],
                                    fact |-> pn.fact])]
         IN  spliceNodes(added, patch, k + 1, Append(res, OutletId(Len(added.nodes), 0)))

\* the nodes the outputs need, renumbered in evaluation order
compact(model) ==
    LET order == eval_order(model)
        newId(n) == CHOOSE k \in DOMAIN order : order[k] = n
    IN  [nodes |-> [k \in DOMAIN order |->
                      [model.nodes[order[k]] EXCEPT !.inputs =
                          [x \in DOMAIN @ |-> OutletId(newId(@[x].node), @[x].slot)]]],
         outputs |-> [k \in DOMAIN model.outputs |->
                        OutletId(newId(model.outputs[k].node), model.outputs[k].slot)]]

\* ModelPatch::apply: splice the new nodes in, feed every consumer of a
\* shunted outlet (and the model's outputs) from its replacement, and drop
\* what the outputs no longer need
apply(model, patch) ==
    LET sp == spliceNodes(model, patch, 1, <<>>)
        by(o) == IF contains_key(patch.shunts, o) THEN sp.res[patch.shunts[o].node] ELSE o
    IN  compact([nodes |-> [n \in DOMAIN sp.model.nodes |->
                              [sp.model.nodes[n] EXCEPT !.inputs =
                                  [x \in DOMAIN @ |-> by(@[x])]]],
                 outputs |-> [k \in DOMAIN model.outputs |-> by(model.outputs[k])]])

\* TypedOp::declutter of a node: only RmDim proposes anything here
node_declutter(model, n) ==
    IF model.nodes[n].op.kind = "RmDim" THEN declutter(model, n) ELSE None

(***************************************************************************)
(* Specification of the declutter loop                                     *)
(***************************************************************************)
DcSourceShapes == {<<3>>, <<1, 3>>}

\* the operators that can follow an outlet of the given shape
OpsOn(shape) ==
    {AddDimOp(a) : a \in 0..Len(shape)}
    \cup {RmDimOp(a) : a \in {i \in 0..(Len(shape) - 1) : shape[i + 1] = 1}}
    \cup {UnaryOp, FixedOp}

RECURSIVE DcChains(_)
\* a source followed by k operators, each fed by the node before it or by
\* the one before that
DcChains(k) ==
    IF k = 0
    THEN {<<[op |-> SourceOp, inputs |-> <<>>, fact |-> TypedFact(sh)]>> :
            sh \in DcSourceShapes}
    ELSE UNION {UNION {{Append(g, [op |-> op,
                                   inputs |-> <<OutletId(from, 0)>>,
                                   fact |-> LET of == op_output_facts(op, g[from].fact)
                                            IN  [datum_type |-> of.datum_type,
                                                 shape |-> of.shape]]) :
                          op \in OpsOn(g[from].fact.shape)} :
                       from \in {Len(g), Len(g) - 1} \cap DOMAIN g} :
                g \in DcChains(k - 1)}

Leaves(nodes) ==
    {n \in DOMAIN nodes : \A k \in DOMAIN nodes : OutletId(n, 0) \notin Range(nodes[k].inputs)}

DcInit ==
    /\ RmIdle
    /\ InfIdle
    /\ TrIdle
    /\ \E k \in 1..MaxOps : \E nodes \in DcChains(k) :
         LET leaves == Ascending(Leaves(nodes))
         IN  dc_model = [nodes |-> nodes,
                         outputs |-> [i \in DOMAIN leaves |-> OutletId(leaves[i], 0)]]
    /\ dc_pc = "pass"
    /\ dc_ix = 1
    /\ dc_last = None

\* one turn of a pass: ask the node's operator for a patch; apply it and
\* start the pass again when there is one
DeclutterNode ==
    /\ dc_pc = "pass"
    /\ dc_ix <= Len(eval_order(dc_model))
    /\ \E n \in {eval_order(dc_model)[dc_ix]} :
         \E r \in {node_declutter(dc_model, n)} :
            /\ dc_last' = [tag |-> r.tag, node |-> n, before |-> dc_model]
            /\ IF r.tag = "none"
               THEN /\ dc_ix' = dc_ix + 1
                    /\ UNCHANGED <<dc_model, dc_pc>>
               ELSE IF r.tag = "some"
               THEN /\ dc_model' = apply(dc_model, r.patch)
                    /\ dc_ix' = 1
                    /\ UNCHANGED dc_pc
               ELSE /\ dc_pc' = "error"
                    /\ UNCHANGED <<dc_model, dc_ix>>
    /\ UNCHANGED <<rmvars, infvars, trvars>>

\* a full pass proposed nothing
PassDone ==
    /\ dc_pc = "pass"
    /\ dc_ix > Len(eval_order(dc_model))
    /\ dc_pc' = "done"
    /\ UNCHANGED <<dc_model, dc_ix, dc_last, rmvars, infvars, trvars>>

DcNext ==
    \/ DeclutterNode
    \/ PassDone

SpecDeclutter == DcInit /\ [][DcNext]_vars


(***************************************************************************)
(* Properties of RmDims / RmDim                                            *)
(***************************************************************************)
IsSet(axes) == \A i, j \in DOMAIN axes : i # j => axes[i] # axes[j]

AxesAreOne(axes, shape) ==
    \A i \in DOMAIN axes : axes[i] < Len(shape) /\ shape[axes[i] + 1] = 1

\* shape `out` is shape `in` with exactly the positions in A removed: every
\* kept position i lands at i minus the number of removed positions below it
RemovedExactly(A, in, out) ==
    /\ Len(out) = Len(in) - Cardinality(A)
    /\ \A i \in 0..(Len(in) - 1) :
         i \notin A =>
           LET j == i - Cardinality({k \in A : k < i})
           IN  j + 1 \in DOMAIN out /\ out[j + 1] = in[i + 1]

\* C6: for RmDims over a set of axes A and an input shape whose dimensions at
\* A are all 1, inference yields the input shape with exactly the positions
\* in A removed, rank = input rank - |A| and the input's datum type; to_typed
\* emits |A| chained RmDim nodes in descending axis order whose composed
\* output_facts give the same shape.  For A = {0} on [1,3,224,224]: shape
\* [3,224,224], rank 3, one RmDim node with axis 0.
C6_RmDimsInferenceAndLowering ==
    (rm_op.kind = "RmDims" /\ IsSet(rm_op.axes)
        /\ AxesAreOne(rm_op.axes, rm_fact.shape)) =>
      LET A == Range(rm_op.axes)
      IN  /\ rm_infer # None =>
                /\ rm_infer.tag = "ok"
                /\ RemovedExactly(A, rm_fact.shape, rm_infer.shape)
                /\ rm_infer.rank = Len(rm_fact.shape) - Cardinality(A)
                /\ rm_infer.datum_type = rm_fact.datum_type
                /\ (rm_op.axes = <<0>> /\ rm_fact.shape = <<1, 3, 224, 224>>) =>
                      rm_infer.shape = <<3, 224, 224>> /\ rm_infer.rank = 3
          /\ rm_typed # None =>
                /\ rm_typed.tag = "ok"
                /\ Len(rm_typed.nodes) = Cardinality(A)
                /\ {rm_typed.nodes[i].axis : i \in DOMAIN rm_typed.nodes} = A
                /\ \A i \in DOMAIN rm_typed.nodes :
                      /\ rm_typed.nodes[i].op = "RmDim"
                      /\ i > 1 => rm_typed.nodes[i - 1].axis > rm_typed.nodes[i].axis
                /\ RemovedExactly(A, rm_fact.shape, rm_typed.fact.shape)
                /\ rm_typed.fact.datum_type = rm_fact.datum_type
                /\ (rm_op.axes = <<0>> /\ rm_fact.shape = <<1, 3, 224, 224>>) =>
                      rm_typed.nodes = <<[op |-> "RmDim", axis |-> 0]>>

\* C6 witness: two axes given out of order, both inferred and lowered
C6_Witness ==
    /\ rm_op.kind = "RmDims"
    /\ rm_op.axes = <<0, 2>>
    /\ rm_fact.shape = <<1, 3, 1, 224>>
    /\ rm_infer # None /\ rm_infer.tag = "ok" /\ rm_infer.shape = <<3, 224>>
    /\ rm_typed # None /\ rm_typed.tag = "ok" /\ Len(rm_typed.nodes) = 2

\* C9: RmDim(a) on rank r reports exactly one pair for every input axis
\* i # a, (i, i) when i < a and (i, i-1) when i > a, period 1, disposable,
\* and none for a: r-1 pairs in all.
C9_InvariantsPairEveryOtherAxis ==
    (rm_op.kind = "RmDim" /\ rm_inv # None) =>
      LET a == rm_op.axis
          r == Len(rm_fact.shape)
          axes == rm_inv.axes
      IN  /\ Len(axes) = r - 1
          /\ \A i \in 0..(r - 1) :
               LET hits == {k \in DOMAIN axes : axes[k].inputs = <<i>>}
               IN  IF i = a THEN hits = {}
                   ELSE /\ Cardinality(hits) = 1
                        /\ \A k \in hits :
                             /\ axes[k].outputs = <<IF i < a THEN i ELSE i - 1>>
                             /\ axes[k].period = 1
                             /\ axes[k].disposable

\* C10: RmDim(a) on a pulsed fact of rank r with streaming axis s: the output
\* shape is the input shape without position a, the streaming axis is
\* computed without underflow, indexes the output shape and designates the
\* dimension the input's streaming axis designated, for every (a, s).
C10_PulsedAxisFollowsStream ==
    (rm_op.kind = "RmDim" /\ rm_pulsed # None) =>
      /\ rm_pulsed.tag = "ok"
      /\ ~rm_pulsed.underflow
      /\ RemovedExactly({rm_op.axis}, rm_fact.shape, rm_pulsed.shape)
      /\ rm_pulsed.axis < Len(rm_fact.shape) - 1
      /\ rm_pulsed.shape[rm_pulsed.axis + 1] = rm_fact.shape[rm_fact.axis + 1]

(***************************************************************************)
(* Properties of InferenceOp::infer                                        *)
(***************************************************************************)
AllInputsConcrete ==
    /\ inf_op.infer_facts.tag = "ok"
    /\ \A i \in DOMAIN inf_op.infer_facts.inputs : ~inf_op.infer_facts.inputs[i].value.any

\* C2: for a stateless inference op, when infer_facts succeeds, every infered
\* input has a concrete value and eval succeeds on those values, infer
\* returns the facts built from eval's values as outputs (not the outputs of
\* the rules), with the inputs and observed facts of infer_facts.
C2_EagerEvalOutputs ==
    (inf_pc = "done" /\ inf_op.as_stateless /\ AllInputsConcrete
        /\ inf_op.eval.tag = "ok") =>
      /\ inf_values.tag = "ok"
      /\ Len(inf_values.values) = Len(inf_op.infer_facts.inputs)
      /\ \A i \in DOMAIN inf_values.values :
            Only(inf_values.values[i]) = inf_op.infer_facts.inputs[i].value
      /\ inf_result.tag = "ok"
      /\ Len(inf_result.outputs) = Len(inf_op.eval.values)
      /\ \A i \in DOMAIN inf_result.outputs :
            /\ inf_result.outputs[i].value = Only(inf_op.eval.values[i])
            /\ inf_result.outputs[i].datum_type = Only(inf_op.eval.values[i].datum_type)
      /\ inf_result.inputs = inf_op.infer_facts.inputs
      /\ inf_result.observed = inf_op.infer_facts.observed

\* C2 witness: eval's value differs from what the rules left as output
C2_Witness ==
    /\ inf_pc = "done"
    /\ inf_op.as_stateless /\ AllInputsConcrete /\ inf_op.eval.tag = "ok"
    /\ Len(inf_op.infer_facts.inputs) = 2
    /\ inf_op.infer_facts.outputs[1].value # Only(inf_op.eval.values[1])
    /\ inf_result.tag = "ok"

\* C7: a StreamTensor error of the eager eval is swallowed and infer returns
\* the facts of infer_facts; any other eval error fails infer with the
\* 'Eager eval' context; an infer_facts failure fails infer with 'Infering
\* facts' and eval is not attempted.
C7_StreamTensorSwallowed ==
    inf_pc = "done" =>
      /\ inf_op.infer_facts.tag = "err" =>
            /\ inf_result = [tag |-> "err", kind |-> inf_op.infer_facts.kind,
                             context |-> "Infering facts"]
            /\ inf_values = None
      /\ (inf_op.as_stateless /\ AllInputsConcrete /\ inf_op.eval = StreamTensor) =>
            /\ inf_values # None
            /\ inf_result = [tag |-> "ok",
                             inputs |-> inf_op.infer_facts.inputs,
                             outputs |-> inf_op.infer_facts.outputs,
                             observed |-> inf_op.infer_facts.observed]
      /\ (inf_op.as_stateless /\ AllInputsConcrete /\ inf_op.eval = OtherError) =>
            /\ inf_values # None
            /\ inf_result = [tag |-> "err", kind |-> "Other", context |-> "Eager eval"]

\* C7 witness: eval was called, failed with StreamTensor, and infer succeeded
C7_Witness ==
    /\ inf_pc = "done"
    /\ inf_op.as_stateless /\ AllInputsConcrete /\ inf_op.eval = StreamTensor
    /\ inf_values # None
    /\ inf_result.tag = "ok"

(***************************************************************************)
(* Properties of the translator                                            *)
(***************************************************************************)
\* the target outlet t is the translation of the source outlet o: the same
\* slot of the target node made from o's node
ImageOf(t, o) ==
    /\ t.node \in DOMAIN target.nodes
    /\ target.nodes[t.node].name = o.node
    /\ t.slot = o.slot

\* C1: when the translation succeeds, the target declares as many inputs as
\* the source and target.inputs[k] is the image of source.inputs[k] under the
\* recorded mapping, likewise for the outputs: nothing is dropped or
\* reordered, and an unused declared input keeps its position.
C1_InterfacePreserved ==
    tr_pc = "done" =>
      /\ Len(target.inputs) = Len(source.inputs)
      /\ \A k \in DOMAIN source.inputs :
            /\ target.inputs[k] = mapping[source.inputs[k]]
            /\ ImageOf(target.inputs[k], source.inputs[k])
      /\ Len(target.outputs) = Len(source.outputs)
      /\ \A k \in DOMAIN source.outputs :
            /\ target.outputs[k] = mapping[source.outputs[k]]
            /\ ImageOf(target.outputs[k], source.outputs[k])

\* C1 witness: the first of two declared inputs feeds nothing the outputs need
C1_Witness ==
    /\ tr_pc = "done"
    /\ Len(source.inputs) = 2
    /\ source.inputs[1].node \notin Range(tr_order)
    /\ source.inputs[2].node \in Range(tr_order)
    /\ source.inputs[1].node > source.inputs[2].node

\* C8: with IntoTranslator the nodes are visited in a topological order, so
\* no lookup mapping[o] ever misses, no source node is translated twice, and
\* every target node's inlets are fed by the images of its source node's
\* inlets in the same slot order.
C8_WalkInTopologicalOrder ==
    /\ tr_pc # "panic"
    /\ \A i, j \in DOMAIN tr_calls : i # j => tr_calls[i] # tr_calls[j]
    /\ \A j \in DOMAIN tr_calls :
          InputNodes(source.nodes, tr_calls[j]) \subseteq {tr_calls[i] : i \in 1..(j - 1)}
    /\ tr_pc # "idle" =>
         /\ Len(target.nodes) = Len(tr_calls)
         /\ \A t \in DOMAIN target.nodes :
              LET old == source.nodes[tr_calls[t]]
              IN  /\ target.nodes[t].name = tr_calls[t]
                  /\ Len(target.nodes[t].inputs) = Len(old.inputs)
                  /\ \A x \in DOMAIN old.inputs :
                        ImageOf(target.nodes[t].inputs[x], old.inputs[x])

\* C8 witness: a node with two different inputs was translated after both,
\* although its id is lower than theirs
C8_Witness ==
    /\ tr_pc = "done"
    /\ \E j \in DOMAIN tr_calls :
         LET old == source.nodes[tr_calls[j]]
         IN  /\ Len(old.inputs) = 2
             /\ old.inputs[1].node # old.inputs[2].node
             /\ old.inputs[1].node > tr_calls[j]
             /\ old.inputs[2].node > tr_calls[j]

(***************************************************************************)
(* Claims about RmDim::declutter and the declutter loop                    *)
(***************************************************************************)
RECURSIVE denote(_, _)
\* what a node computes: the element-wise operators applied to the source on
\* the way to it, and the shape the elements are laid out in (AddDim and
\* RmDim keep the elements and their order)
denote(model, n) ==
    LET node == model.nodes[n]
    IN  IF node.inputs = <<>>
        THEN [source |-> node.fact.shape, fns |-> <<>>, shape |-> node.fact.shape]
        ELSE LET up == denote(model, node.inputs[1].node)
             IN  [source |-> up.source,
                  fns |-> IF node.op.kind \in {"Unary", "Fixed"}
                          THEN Append(up.fns, node.op.kind) ELSE up.fns,
                  shape |-> node.fact.shape]

\* what the declared outputs compute
OutputsDenote(model) ==
    [k \in DOMAIN model.outputs |-> denote(model, model.outputs[k].node)]

CountKind(model, kind) ==
    Cardinality({n \in DOMAIN model.nodes : model.nodes[n].op.kind = kind})

\* the last step asked a RmDim node for a patch
AskedRmDim ==
    /\ "node" \in DOMAIN dc_last
    /\ dc_last.before.nodes[dc_last.node].op.kind = "RmDim"

\* the tracking RmDim::declutter computed in the last step
LastTracking ==
    for_outlet_and_axis(dc_last.before,
                        dc_last.before.nodes[dc_last.node].inputs[1],
                        dc_last.before.nodes[dc_last.node].op.axis)

\* the tracked axis lives between AddDim creators and RmDim destructors only,
\* every operator on the way lets go of it, and it reaches no declared output
LegalChain ==
    /\ AskedRmDim
    /\ ~entangled(dc_last.before, LastTracking)
    /\ LastTracking.disposable
    /\ \A k \in DOMAIN dc_last.before.outputs :
          dc_last.before.outputs[k] \notin DOMAIN LastTracking.outlets

\* C3: on a chain AddDim(a) -> pass-through nodes -> RmDim of the tracked axis,
\* wherever the axis sits, RmDim::declutter returns a patch; after the patch
\* the declared outputs compute the same values in the same shapes, and the
\* creators and the destructors of the axis are gone from the graph.
C3_DeclutterElidesPair ==
    LegalChain =>
       /\ dc_last.tag = "some"
       /\ OutputsDenote(dc_model) = OutputsDenote(dc_last.before)
       /\ CountKind(dc_model, "AddDim") =
             CountKind(dc_last.before, "AddDim") - Cardinality(LastTracking.creators)
       /\ CountKind(dc_model, "RmDim") =
             CountKind(dc_last.before, "RmDim") - Cardinality(LastTracking.destructors)

\* C4: when a creator is not an AddDim of the tracked axis, or a destructor is
\* not a RmDim of it, or an operator on the way does not report the axis as
\* disposable, RmDim::declutter returns none and the graph stays as it was.
C4_EntangledLeavesGraphAlone ==
    (AskedRmDim /\ (entangled(dc_last.before, LastTracking) \/ ~LastTracking.disposable))
       => (dc_last.tag = "none" /\ dc_model = dc_last.before)

\* C5: the declutter loop stops only after a pass that proposed no patch, and
\* asking every node of the graph it stopped on again proposes nothing.
C5_LoopReachesQuietPass ==
    dc_pc # "pass" =>
       /\ dc_pc = "done"
       /\ \A n \in DOMAIN dc_model.nodes : node_declutter(dc_model, n) = None

=============================================================================
